---------------------------- MODULE Spec2Model ----------------------------
(***************************************************************************)
(* A model of the gaze/blink tracker of eye-tracked-input                  *)
(* (src/src/vision/gaze_tracker.py).                                       *)
(*                                                                         *)
(* Numbers.  Python floats are modelled as exact rationals <<n, d>> in     *)
(* lowest terms with d > 0; floating-point rounding is not modelled.       *)
(* Python's None is the empty tuple None == <<>> wherever a float, a       *)
(* point, an array of points or a bounds dict may be None, and the string  *)
(* "None" for a direction.  Times are whole milliseconds.                  *)
(***************************************************************************)
EXTENDS Integers, Sequences, FiniteSets

VARIABLES
    \* ---- GazeTracker fields (gaze_tracker.py:23-33)
    previous_eye_ratio,   \* None or the last non-degenerate normalized opening
    last_blink_time,      \* time of the last emitted blink, 0 initially
    baseline_ratios,      \* the rolling window of avg_ratio samples
    baseline_avg,         \* None or the mean of baseline_ratios
    \* ---- environment
    now,                  \* the last value read from time.time(), in ms
    \* ---- the most recent call and what it returned
    op,                   \* "init", "detect_blink" or "get_gaze_direction"
    landmarks,            \* the landmark list passed to the most recent call
    is_blink,             \* what the most recent detect_blink returned
    direction,            \* what the most recent get_gaze_direction returned
    \* ---- history (observers; the tracker never reads them)
    prior,                \* the four tracker fields as the most recent call found them
    samples,              \* every avg_ratio pushed so far, in arrival order
    changes,              \* how often a pushed sample differed from the one before
    run_pos,              \* position of the latest detect_blink frame in its
                          \* closure: 0 not in a closure, 1 first frame, 2 later
    blinks,               \* times of the last two True returns of detect_blink
    closure,              \* "open", or how the current eye closure began: "live"
                          \* outside the cooldown of the last blink, "lost" inside
    alone_blink,          \* a second tracker that is given only the detect_blink calls
    alone_gaze,           \* a second tracker that is given only the get_gaze_direction calls
    ratio_call,           \* the most recent calculate_horizontal_ratio call on its own
    \* ---- KeyboardController fields (keyboard_controller.py:9-19)
    current_key,          \* "None", "left" or "right"
    last_direction,       \* "None", "LEFT" or "RIGHT"
    last_blink_state,     \* BOOLEAN
    jump_start_time,      \* None or <<t>>
    jump_key_pressed,     \* BOOLEAN
    held,                 \* the keys the pynput Controller holds down
    \* ---- the most recent controller call (observers)
    kcall,                \* its name, arguments and clock reading, and the
                          \* name of the call before it
    kprior,               \* the controller fields and held keys as it found them
    events,               \* the presses and releases it issued, in order
    up_pressed_at,        \* None or <<t>>: when Key.up was last pressed
    \* ---- main()'s locals (main.py:29-101)
    pc,                   \* position in the frame loop
    frame,                \* the landmark list of the frame being processed
    keyboard_enabled,     \* BOOLEAN
    enabled_by            \* "never", or the key event ("none" for 0xFF, "q",
                          \* "other") on which keyboard_enabled turned True (observer)

tracker_vars == <<previous_eye_ratio, last_blink_time, baseline_ratios, baseline_avg,
                  now, op, landmarks, is_blink, direction,
                  prior, samples, changes, run_pos, blinks,
                  closure, alone_blink, alone_gaze>>

keys_vars == <<current_key, last_direction, last_blink_state, jump_start_time,
               jump_key_pressed, held, kcall, kprior, events, up_pressed_at>>

main_vars == <<pc, frame, keyboard_enabled, enabled_by>>

vars == <<tracker_vars, ratio_call, keys_vars, main_vars>>

None == <<>>

\* The tracker's fields, as a record.
Fields ==
    [previous_eye_ratio |-> previous_eye_ratio,
     last_blink_time    |-> last_blink_time,
     baseline_ratios    |-> baseline_ratios,
     baseline_avg       |-> baseline_avg]

-----------------------------------------------------------------------------
(* Exact arithmetic standing for Python's float operators.                 *)

RECURSIVE GCD(_, _)
GCD(a, b) == IF b = 0 THEN a ELSE GCD(b, a % b)

IAbs(i) == IF i < 0 THEN -i ELSE i

\* The rational n/d (d # 0) in lowest terms with a positive denominator.
Rat(n, d) ==
    LET s == IF d < 0 THEN -1 ELSE 1
        g == GCD(IAbs(n), IAbs(d))
    IN  <<(s * n) \div g, (s * d) \div g>>

FAdd(a, b) == Rat(a[1] * b[2] + b[1] * a[2], a[2] * b[2])
FSub(a, b) == Rat(a[1] * b[2] - b[1] * a[2], a[2] * b[2])
FMul(a, b) == Rat(a[1] * b[1], a[2] * b[2])
FDiv(a, b) == Rat(a[1] * b[2], a[2] * b[1])
FLt(a, b)  == a[1] * b[2] < b[1] * a[2]
FLe(a, b)  == a[1] * b[2] <= b[1] * a[2]
FAbs(a)    == <<IAbs(a[1]), a[2]>>
FMin(a, b) == IF FLt(b, a) THEN b ELSE a
FMax(a, b) == IF FLt(a, b) THEN b ELSE a

\* sum(list) of floats, exactly: the numerators are added over the least
\* common denominator of the first i elements.
RECURSIVE DenTo(_, _)
DenTo(s, i) ==
    IF i = 0 THEN 1
    ELSE LET d == DenTo(s, i - 1) IN (d * s[i][2]) \div GCD(d, s[i][2])
RECURSIVE NumTo(_, _, _)
NumTo(s, i, den) ==
    IF i = 0 THEN 0 ELSE NumTo(s, i - 1, den) + s[i][1] * (den \div s[i][2])
FSum(s) == Rat(NumTo(s, Len(s), DenTo(s, Len(s))), DenTo(s, Len(s)))

\* numpy's array.max(), array.min() and argmax/argmin (first index attaining
\* the extreme) over a non-empty sequence of floats
RECURSIVE ArrMax(_)
ArrMax(s) == IF Len(s) = 1 THEN s[1] ELSE FMax(s[1], ArrMax(Tail(s)))
RECURSIVE ArrMin(_)
ArrMin(s) == IF Len(s) = 1 THEN s[1] ELSE FMin(s[1], ArrMin(Tail(s)))
ArgMax(s) == CHOOSE i \in 1..Len(s) :
                 /\ s[i] = ArrMax(s)
                 /\ \A j \in 1..(i - 1) : s[j] # ArrMax(s)
ArgMin(s) == CHOOSE i \in 1..Len(s) :
                 /\ s[i] = ArrMin(s)
                 /\ \A j \in 1..(i - 1) : s[j] # ArrMin(s)

\* points[:, 0] and points[:, 1]
Col0(points) == [i \in 1..Len(points) |-> points[i][1]]
Col1(points) == [i \in 1..Len(points) |-> points[i][2]]

-----------------------------------------------------------------------------
(* Tracker constants (gaze_tracker.py:23-33).                              *)

blink_threshold      == Rat(18, 100)
blink_cooldown       == 150
\* A window of 40 samples instead of 30.
baseline_max_samples_large == 30 + 10
baseline_max_samples == 30
\* The average exposed one sample early.
min_samples_early    == 10 - 1
min_samples          == 10
gaze_threshold       == Rat(15, 1000)

(* The landmark index tables.  The code derives them from MediaPipe's      *)
(* connection sets (16 eye and 4 iris indices per side, out of 478         *)
(* landmarks); the model keeps their shape on a 12-landmark schema: each   *)
(* table sorted ascending, the right eye below the left eye, the two iris  *)
(* tables above both eyes.  Indices are 0-based as in the code.            *)
right_eye_indices  == <<0, 1, 2, 3>>
left_eye_indices   == <<4, 5, 6, 7>>
right_iris_indices == <<8, 9>>
left_iris_indices  == <<10, 11>>


-----------------------------------------------------------------------------
(* Landmark geometry accessors (gaze_tracker.py:43-94).  A landmark is a   *)
(* record [x, y] of normalized coordinates; a point is a pair <<x, y>>.    *)
(* An image size of 0 stands for the None that detect_blink passes: the    *)
(* code's test "if image_width and image_height" treats both alike.        *)

_get_landmark_point(lms, idx, image_width, image_height) ==
    IF idx >= Len(lms)
    THEN None
    ELSE LET landmark == lms[idx + 1]
         IN  IF image_width # 0 /\ image_height # 0
             THEN <<FMul(landmark.x, Rat(image_width, 1)),
                    FMul(landmark.y, Rat(image_height, 1))>>
             ELSE <<landmark.x, landmark.y>>

\* The points of the indices that are in range, in order; None when there
\* is none (an empty sequence and None are the same value here).
RECURSIVE _get_points_from_indices(_, _, _, _)
_get_points_from_indices(lms, indices, image_width, image_height) ==
    IF indices = <<>>
    THEN None
    ELSE LET point == _get_landmark_point(lms, Head(indices),
                                          image_width, image_height)
             rest  == _get_points_from_indices(lms, Tail(indices),
                                               image_width, image_height)
         IN  IF point # None THEN <<point>> \o rest ELSE rest

\* points.mean(axis=0)
MeanPoint(points) ==
    <<FDiv(FSum(Col0(points)), Rat(Len(points), 1)),
      FDiv(FSum(Col1(points)), Rat(Len(points), 1))>>

\* Returns <<left, right>>, both None when either is unavailable.
get_iris_positions(lms, image_width, image_height) ==
    IF lms = <<>>
    THEN <<None, None>>
    ELSE LET left_points  == _get_points_from_indices(
                                 lms, left_iris_indices, image_width, image_height)
             right_points == _get_points_from_indices(
                                 lms, right_iris_indices, image_width, image_height)
         IN  IF left_points = None \/ right_points = None
             THEN <<None, None>>
             ELSE <<MeanPoint(left_points), MeanPoint(right_points)>>

get_bounds(points) ==
    [left   |-> <<ArrMin(Col0(points)), points[ArgMin(Col0(points))][2]>>,
     right  |-> <<ArrMax(Col0(points)), points[ArgMax(Col0(points))][2]>>,
     top    |-> <<points[ArgMin(Col1(points))][1], ArrMin(Col1(points))>>,
     bottom |-> <<points[ArgMax(Col1(points))][1], ArrMax(Col1(points))>>]

\* Returns <<left_bounds, right_bounds>>, both None when either is unavailable.
get_eye_boundaries(lms, image_width, image_height) ==
    IF lms = <<>>
    THEN <<None, None>>
    ELSE LET left_points  == _get_points_from_indices(
                                 lms, left_eye_indices, image_width, image_height)
             right_points == _get_points_from_indices(
                                 lms, right_eye_indices, image_width, image_height)
         IN  IF left_points = None \/ right_points = None
             THEN <<None, None>>
             ELSE <<get_bounds(left_points), get_bounds(right_points)>>

-----------------------------------------------------------------------------
(* Blink detection (gaze_tracker.py:96-137).                               *)

\* A zero average eye width read as a fully closed eye instead of skipped.
opening_of_extents_closed(min_vertical, avg_horizontal) ==
    IF avg_horizontal = Rat(0, 1)
    THEN Rat(0, 1)
    ELSE FDiv(min_vertical, avg_horizontal)

\* Lines 120-124: no opening when the average eye width is zero.
opening_of_extents(min_vertical, avg_horizontal) ==
    IF avg_horizontal = Rat(0, 1)
    THEN None
    ELSE FDiv(min_vertical, avg_horizontal)

\* Lines 98-124: the normalized eye opening of a frame, or None on each of
\* the three early "return False" paths (no landmarks, an eye without
\* points, zero average eye width).
normalized_opening(lms) ==
    IF lms = <<>>
    THEN None
    ELSE LET left_points  == _get_points_from_indices(lms, left_eye_indices, 0, 0)
             right_points == _get_points_from_indices(lms, right_eye_indices, 0, 0)
         IN  IF \/ left_points = None \/ right_points = None
                \/ Len(left_points) = 0 \/ Len(right_points) = 0
             THEN None
             ELSE LET left_vertical    == FSub(ArrMax(Col1(left_points)),
                                               ArrMin(Col1(left_points)))
                      right_vertical   == FSub(ArrMax(Col1(right_points)),
                                               ArrMin(Col1(right_points)))
                      min_vertical     == FMin(left_vertical, right_vertical)
                      left_horizontal  == FSub(ArrMax(Col0(left_points)),
                                               ArrMin(Col0(left_points)))
                      right_horizontal == FSub(ArrMax(Col0(right_points)),
                                               ArrMin(Col0(right_points)))
                      avg_horizontal   == FDiv(FAdd(left_horizontal, right_horizontal),
                                               Rat(2, 1))
                  IN  opening_of_extents(min_vertical, avg_horizontal)

\* Line 128
is_blinking(opening) == FLt(opening, blink_threshold)

\* A level-triggered detector: the open->closed edge test is dropped.
was_open_always(prev) == TRUE

\* Line 129
was_open(prev) == prev = None \/ FLe(blink_threshold, prev)

\* The cooldown compared with >= instead of >.
cooldown_over_inclusive(current_time, last) == current_time - last >= blink_cooldown

\* Line 131, third conjunct
cooldown_over(current_time, last) == current_time - last > blink_cooldown

\* A closure refused by the cooldown is not recorded, so that its next frame
\* is taken for a fresh open->closed edge.
blink_decision_retry(opening, prev, last, current_time) ==
    IF is_blinking(opening) /\ was_open(prev) /\ cooldown_over(current_time, last)
    THEN [ret |-> TRUE,  previous_eye_ratio |-> opening, last_blink_time |-> current_time]
    ELSE IF is_blinking(opening) /\ was_open(prev)
         THEN [ret |-> FALSE, previous_eye_ratio |-> prev, last_blink_time |-> last]
         ELSE [ret |-> FALSE, previous_eye_ratio |-> opening, last_blink_time |-> last]

\* Lines 126-137 on a frame whose opening was computed: the return value and
\* the two fields after the call.
blink_decision(opening, prev, last, current_time) ==
    IF is_blinking(opening) /\ was_open(prev) /\ cooldown_over(current_time, last)
    THEN [ret |-> TRUE,  previous_eye_ratio |-> opening, last_blink_time |-> current_time]
    ELSE [ret |-> FALSE, previous_eye_ratio |-> opening, last_blink_time |-> last]

\* An early return that also forgets the last opening.
blink_outcome_forgetful(opening, prev, last, current_time) ==
    IF opening = None
    THEN [ret |-> FALSE, previous_eye_ratio |-> None, last_blink_time |-> last]
    ELSE blink_decision(opening, prev, last, current_time)

\* detect_blink's return value and the two fields after the call: an early
\* return (no opening) touches nothing.
blink_outcome(opening, prev, last, current_time) ==
    IF opening = None
    THEN [ret |-> FALSE, previous_eye_ratio |-> prev, last_blink_time |-> last]
    ELSE blink_decision(opening, prev, last, current_time)

\* The whole of detect_blink, called dt ms after the previous clock reading,
\* on a frame whose lines 98-124 yield opening (None on the early returns).
detect_blink(lms, opening, dt) ==
    LET current_time == now + dt
    IN  /\ now' = current_time
        /\ op' = "detect_blink"
        /\ landmarks' = lms
        /\ prior' = Fields
        /\ LET d == blink_outcome(opening, previous_eye_ratio,
                                  last_blink_time, current_time)
           IN  /\ is_blink' = d.ret
               /\ previous_eye_ratio' = d.previous_eye_ratio
               /\ last_blink_time' = d.last_blink_time
               /\ blinks' = IF d.ret
                            THEN IF blinks = <<>>
                                 THEN <<current_time>>
                                 ELSE <<blinks[Len(blinks)], current_time>>
                            ELSE blinks
        /\ run_pos' = IF opening = None \/ ~FLt(opening, Rat(18, 100)) THEN 0
                      ELSE IF run_pos = 0 THEN 1 ELSE 2
        /\ closure' = IF opening = None THEN closure
                      ELSE IF ~FLt(opening, Rat(18, 100)) THEN "open"
                      ELSE IF closure # "open" THEN closure
                      ELSE IF blinks # <<>> /\ current_time - blinks[Len(blinks)] <= 150
                           THEN "lost"
                           ELSE "live"
        /\ alone_blink' = blink_outcome(opening, alone_blink.previous_eye_ratio,
                                        alone_blink.last_blink_time, current_time)
        /\ UNCHANGED <<baseline_ratios, baseline_avg, direction, samples, changes,
                       alone_gaze>>

-----------------------------------------------------------------------------
(* Adaptive gaze estimation (gaze_tracker.py:139-189).                     *)

\* The ratio returned as computed, without the clamp to [0, 1].
calculate_horizontal_ratio_unclamped(iris_pos, eye_bounds) ==
    IF iris_pos = None \/ eye_bounds = None
    THEN None
    ELSE LET eye_width == FSub(eye_bounds.right[1], eye_bounds.left[1])
         IN  IF FLt(FAbs(eye_width), Rat(1, 1000000))
             THEN Rat(1, 2)
             ELSE FDiv(FSub(iris_pos[1], eye_bounds.left[1]), eye_width)

\* An eye without width read as a gaze at its left corner (0.0 for 0.5).
calculate_horizontal_ratio_left_fallback(iris_pos, eye_bounds) ==
    IF iris_pos = None \/ eye_bounds = None
    THEN None
    ELSE LET eye_width == FSub(eye_bounds.right[1], eye_bounds.left[1])
         IN  IF FLt(FAbs(eye_width), Rat(1, 1000000))
             THEN Rat(0, 1)
             ELSE LET ratio == FDiv(FSub(iris_pos[1], eye_bounds.left[1]), eye_width)
                  IN  FMax(Rat(0, 1), FMin(Rat(1, 1), ratio))

\* Lines 139-149
calculate_horizontal_ratio(iris_pos, eye_bounds) ==
    IF iris_pos = None \/ eye_bounds = None
    THEN None
    ELSE LET eye_width == FSub(eye_bounds.right[1], eye_bounds.left[1])
         IN  IF FLt(FAbs(eye_width), Rat(1, 1000000))
             THEN Rat(1, 2)
             ELSE LET ratio == FDiv(FSub(iris_pos[1], eye_bounds.left[1]), eye_width)
                  IN  FMax(Rat(0, 1), FMin(Rat(1, 1), ratio))

\* The newest sample dropped instead of the oldest (pop() for pop(0)).
push_sample_drop_newest(ratios, avg_ratio) ==
    LET appended == Append(ratios, avg_ratio)
    IN  IF Len(appended) > baseline_max_samples
        THEN SubSeq(appended, 1, Len(appended) - 1)
        ELSE appended

\* A window that starts over when it is full instead of sliding.
push_sample_restart(ratios, avg_ratio) ==
    LET appended == Append(ratios, avg_ratio)
    IN  IF Len(appended) > baseline_max_samples THEN <<avg_ratio>> ELSE appended

\* Lines 153-155: append, then drop the oldest sample beyond the capacity.
push_sample(ratios, avg_ratio) ==
    LET appended == Append(ratios, avg_ratio)
    IN  IF Len(appended) > baseline_max_samples THEN Tail(appended) ELSE appended

\* The average first computed one sample late (> for >=).
new_average_late(ratios, avg) ==
    IF Len(ratios) > min_samples
    THEN FDiv(FSum(ratios), Rat(Len(ratios), 1))
    ELSE avg

\* Lines 157-158: the average is recomputed only from min_samples on.
new_average(ratios, avg) ==
    IF Len(ratios) >= min_samples
    THEN FDiv(FSum(ratios), Rat(Len(ratios), 1))
    ELSE avg

\* _update_baseline(avg_ratio): the window first, then the average from it.
_update_baseline(avg_ratio) ==
    /\ baseline_ratios' = push_sample(baseline_ratios, avg_ratio)
    /\ baseline_avg' = new_average(baseline_ratios', baseline_avg)

\* A frame without gaze data read as a centred gaze (ratio 0.5) instead of
\* returning None.
frame_avg_ratio_centred(lms, image_width, image_height) ==
    LET iris   == get_iris_positions(lms, image_width, image_height)
        bounds == get_eye_boundaries(lms, image_width, image_height)
    IN  IF iris[1] = None \/ iris[2] = None \/ bounds[1] = None \/ bounds[2] = None
        THEN Rat(1, 2)
        ELSE FDiv(FAdd(calculate_horizontal_ratio(iris[1], bounds[1]),
                       calculate_horizontal_ratio(iris[2], bounds[2])), Rat(2, 1))

\* Lines 162-175: the frame's avg_ratio, or None on the two "return None"
\* paths.
frame_avg_ratio(lms, image_width, image_height) ==
    LET iris   == get_iris_positions(lms, image_width, image_height)
        bounds == get_eye_boundaries(lms, image_width, image_height)
    IN  IF iris[1] = None \/ iris[2] = None \/ bounds[1] = None \/ bounds[2] = None
        THEN None
        ELSE LET left_ratio  == calculate_horizontal_ratio(iris[1], bounds[1])
                 right_ratio == calculate_horizontal_ratio(iris[2], bounds[2])
             IN  IF left_ratio = None \/ right_ratio = None
                 THEN None
                 ELSE FDiv(FAdd(left_ratio, right_ratio), Rat(2, 1))

\* LEFT and RIGHT exchanged.
classify_mirrored(avg_ratio, avg) ==
    IF avg = None
    THEN "CENTER"
    ELSE LET deviation == FSub(avg_ratio, avg)
         IN  IF FLt(FAbs(deviation), gaze_threshold)
             THEN "CENTER"
             ELSE IF FLt(deviation, Rat(0, 1)) THEN "RIGHT" ELSE "LEFT"

\* Lines 181-189, against the baseline as it is after the update.
classify(avg_ratio, avg) ==
    IF avg = None
    THEN "CENTER"
    ELSE LET deviation == FSub(avg_ratio, avg)
         IN  IF FLt(FAbs(deviation), gaze_threshold)
             THEN "CENTER"
             ELSE IF FLt(deviation, Rat(0, 1)) THEN "LEFT" ELSE "RIGHT"

\* get_gaze_direction on a tracker of its own, t, that no detect_blink call
\* has touched: its two baseline fields and its return value after the call.
gaze_alone(t, avg_ratio) ==
    IF avg_ratio = None
    THEN [t EXCEPT !.ret = "None"]
    ELSE LET ratios == push_sample(t.baseline_ratios, avg_ratio)
             avg    == new_average(ratios, t.baseline_avg)
         IN  [baseline_ratios |-> ratios, baseline_avg |-> avg,
              ret |-> classify(avg_ratio, avg)]

\* get_gaze_direction that forgets the last eye opening when the frame has no
\* gaze data.
get_gaze_direction_clears_blink(lms, avg_ratio) ==
        /\ op' = "get_gaze_direction"
        /\ landmarks' = lms
        /\ prior' = Fields
        /\ IF avg_ratio = None
           THEN /\ direction' = "None"
                /\ previous_eye_ratio' = None
                /\ UNCHANGED <<baseline_ratios, baseline_avg, samples, changes>>
           ELSE /\ _update_baseline(avg_ratio)
                /\ direction' = classify(avg_ratio, baseline_avg')
                /\ samples' = Append(samples, avg_ratio)
                /\ changes' = IF samples # <<>> /\ samples[Len(samples)] # avg_ratio
                              THEN changes + 1
                              ELSE changes
                /\ UNCHANGED previous_eye_ratio
        /\ alone_gaze' = gaze_alone(alone_gaze, avg_ratio)
        /\ UNCHANGED <<last_blink_time, now, is_blink,
                       run_pos, blinks, closure, alone_blink>>

\* The whole of get_gaze_direction on a frame whose lines 162-175 yield
\* avg_ratio (None on the "return None" paths).
get_gaze_direction(lms, avg_ratio) ==
        /\ op' = "get_gaze_direction"
        /\ landmarks' = lms
        /\ prior' = Fields
        /\ IF avg_ratio = None
           THEN /\ direction' = "None"
                /\ UNCHANGED <<baseline_ratios, baseline_avg, samples, changes>>
           ELSE /\ _update_baseline(avg_ratio)
                /\ direction' = classify(avg_ratio, baseline_avg')
                /\ samples' = Append(samples, avg_ratio)
                /\ changes' = IF samples # <<>> /\ samples[Len(samples)] # avg_ratio
                              THEN changes + 1
                              ELSE changes
        /\ alone_gaze' = gaze_alone(alone_gaze, avg_ratio)
        /\ UNCHANGED <<previous_eye_ratio, last_blink_time, now, is_blink,
                       run_pos, blinks, closure, alone_blink>>

-----------------------------------------------------------------------------
(* The keyboard controller (src/src/input/keyboard_controller.py).  Keys   *)
(* are "left", "right" and "up" for pynput's Key.left, Key.right and       *)
(* Key.up; "None" is Python's None for a key or a direction.  A time that  *)
(* may be None is None or the 1-tuple <<t>>.  held is the state of the     *)
(* pynput Controller: press adds a key to it, release takes it out.        *)

\* main.py:14, keyboard_controller.py:8 (0.6 s)
jump_hold_duration == 600

\* The controller's fields and what the outside sees of them, as a record.
KeysFields ==
    [current_key      |-> current_key,
     last_direction   |-> last_direction,
     last_blink_state |-> last_blink_state,
     jump_start_time  |-> jump_start_time,
     jump_key_pressed |-> jump_key_pressed,
     held             |-> held,
     up_pressed_at    |-> up_pressed_at]

Press(k)   == <<"press", k>>
Release(k) == <<"release", k>>

\* The Controller's held keys after one event and after a list of events.
KeyAfter(h, e) == IF e[1] = "press" THEN h \cup {e[2]} ELSE h \ {e[2]}

RECURSIVE KeysAfter(_, _)
KeysAfter(h, evs) ==
    IF evs = <<>> THEN h ELSE KeysAfter(KeyAfter(h, Head(evs)), Tail(evs))

\* The hold compared with > instead of >=.
hold_over_exclusive(current_time, start) == current_time - start[1] > jump_hold_duration

\* Line 35
hold_over(current_time, start) == current_time - start[1] >= jump_hold_duration

\* A blink while the jump key is down is ignored: the hold is not restarted.
jump_step_no_restart(blink, was_blink, pressed, start, current_time) ==
    IF blink /\ ~was_blink /\ ~pressed
    THEN [events |-> <<Press("up")>>,
          jump_start_time |-> <<current_time>>, jump_key_pressed |-> TRUE]
    ELSE IF pressed /\ hold_over(current_time, start)
         THEN [events |-> <<Release("up")>>,
               jump_start_time |-> None, jump_key_pressed |-> FALSE]
         ELSE [events |-> <<>>,
               jump_start_time |-> start, jump_key_pressed |-> pressed]

\* Lines 26-38: the jump key.  The events issued and the two jump fields
\* after them.
jump_step(blink, was_blink, pressed, start, current_time) ==
    IF blink /\ ~was_blink
    THEN [events |-> <<Press("up")>>,
          jump_start_time |-> <<current_time>>, jump_key_pressed |-> TRUE]
    ELSE IF pressed /\ hold_over(current_time, start)
         THEN [events |-> <<Release("up")>>,
               jump_start_time |-> None, jump_key_pressed |-> FALSE]
         ELSE [events |-> <<>>,
               jump_start_time |-> start, jump_key_pressed |-> pressed]

\* A direction of None handled as CENTER: the last direction is dropped.
active_direction_drop_on_none(dir, last) ==
    IF dir \in {"LEFT", "RIGHT"}
    THEN [last_direction |-> dir, active |-> dir]
    ELSE [last_direction |-> "None", active |-> "CENTER"]

\* Lines 44-53: last_direction after the call and the active direction.
active_direction(dir, last) ==
    IF dir = "CENTER"
    THEN [last_direction |-> "None", active |-> "CENTER"]
    ELSE IF dir \in {"LEFT", "RIGHT"}
         THEN [last_direction |-> dir, active |-> dir]
         ELSE [last_direction |-> last, active |-> last]

\* Lines 55-59
target_key(active) ==
    IF active = "LEFT" THEN "left"
    ELSE IF active = "RIGHT" THEN "right"
    ELSE "None"

\* The new key pressed before the old one is released.
switch_events_press_first(target, current) ==
    IF target # current
    THEN (IF target # "None" THEN <<Press(target)>> ELSE <<>>)
         \o (IF current # "None" THEN <<Release(current)>> ELSE <<>>)
    ELSE <<>>

\* Lines 63-70: the events of a change of the directional key.
switch_events(target, current) ==
    IF target # current
    THEN (IF current # "None" THEN <<Release(current)>> ELSE <<>>)
         \o (IF target # "None" THEN <<Press(target)>> ELSE <<>>)
    ELSE <<>>

\* What every controller call records about itself.
KeysCalled(name, dir, blink, current_time) ==
    /\ kcall' = [op |-> name, direction |-> dir, is_blink |-> blink,
                 time |-> current_time, after |-> kcall.op]
    /\ kprior' = KeysFields
    /\ held' = KeysAfter(held, events')
    /\ up_pressed_at' = IF \E i \in 1..Len(events') : events'[i] = Press("up")
                        THEN <<current_time>>
                        ELSE IF "up" \in held' THEN up_pressed_at ELSE None

\* The whole of update(direction, is_blink), called dt ms after the previous
\* clock reading.
update(dir, blink, dt) ==
    LET current_time == now + dt
        j == jump_step(blink, last_blink_state, jump_key_pressed,
                       jump_start_time, current_time)
        a == active_direction(dir, last_direction)
        target == target_key(a.active)
    IN  /\ now' = current_time
        /\ jump_start_time' = j.jump_start_time
        /\ jump_key_pressed' = j.jump_key_pressed
        /\ last_blink_state' = blink
        /\ last_direction' = a.last_direction
        /\ current_key' = target
        /\ events' = j.events \o switch_events(target, current_key)
        /\ KeysCalled("update", dir, blink, current_time)

\* Only the directional key released: the jump key is left as it is.
release_all_events_direction_only(current, pressed) ==
    IF current # "None" THEN <<Release(current)>> ELSE <<>>

\* Lines 75-80: the events of release_all.
release_all_events(current, pressed) ==
    (IF current # "None" THEN <<Release(current)>> ELSE <<>>)
    \o (IF pressed THEN <<Release("up")>> ELSE <<>>)

\* release_all that leaves last_direction as it is (line 85 missing).
release_all_keeps_direction(name) ==
    /\ events' = release_all_events(current_key, jump_key_pressed)
    /\ current_key' = "None"
    /\ IF jump_key_pressed
       THEN /\ jump_key_pressed' = FALSE
            /\ jump_start_time' = None
            /\ last_blink_state' = FALSE
       ELSE UNCHANGED <<jump_key_pressed, jump_start_time, last_blink_state>>
    /\ UNCHANGED last_direction
    /\ KeysCalled(name, "None", FALSE, now)

\* The whole of release_all(), also as cleanup() calls it (line 88).
release_all(name) ==
    /\ events' = release_all_events(current_key, jump_key_pressed)
    /\ current_key' = "None"
    /\ IF jump_key_pressed
       THEN /\ jump_key_pressed' = FALSE
            /\ jump_start_time' = None
            /\ last_blink_state' = FALSE
       ELSE UNCHANGED <<jump_key_pressed, jump_start_time, last_blink_state>>
    /\ last_direction' = "None"
    /\ KeysCalled(name, "None", FALSE, now)

-----------------------------------------------------------------------------
(* Frames.  Face(vr, vl, w, g) is a well-formed 12-landmark set, in        *)
(* thousandths of the frame: two eyes w wide whose lids are vr and vl      *)
(* apart and whose iris centres sit g to the right of the eye's left       *)
(* corner.  A list cut short stands for a malformed landmark set, the      *)
(* empty list for no landmarks at all.                                     *)

Lm(X, Y) == [x |-> Rat(X, 1000), y |-> Rat(Y, 1000)]

Eye(x0, v, w) ==
    <<Lm(x0, 400), Lm(x0 + w, 400), Lm(x0 + (w \div 2), 400 - v), Lm(x0 + (w \div 2), 400)>>

Iris(x0, g) == <<Lm(x0 + g - 10, 400), Lm(x0 + g + 10, 400)>>

Face(vr, vl, w, g) ==
    Eye(300, vr, w) \o Eye(600, vl, w) \o Iris(300, g) \o Iris(600, g)

CutTo(lms, n) == SubSeq(lms, 1, n)

NoFace == <<>>

\* main.py:39 (h, w, _ = frame.shape)
ImageWidth  == 640
ImageHeight == 480

OpenFace == Face(30, 30, 100, 50)

\* Openings 0.10, 0.18 and 0.30, a wink, a zero-width eye pair, lists cut
\* inside and before the left-eye table, no landmarks.
BlinkFrames ==
    { Face(10, 10, 100, 50), Face(18, 18, 100, 50), OpenFace,
      Face(30, 10, 100, 50), Face(30, 30, 0, 50),
      CutTo(OpenFace, 6), CutTo(OpenFace, 3), NoFace }

\* Ratios 0.30 and 0.50, a list cut before the iris tables, no landmarks.
GazeFrames ==
    { Face(30, 30, 100, 30), OpenFace, CutTo(OpenFace, 8), NoFace }

\* Frames given to both calls: open and closed eyes, lists cut inside the
\* left-iris and the left-eye table, no landmarks.
BothFrames ==
    { OpenFace, Face(10, 10, 100, 50),
      CutTo(OpenFace, 11), CutTo(OpenFace, 6), NoFace }

\* Time between two clock readings, in ms.
Deltas == {50, 100, 200}

StartTime  == 1000
MaxTime    == 1600
MaxSamples == 36
MaxChanges == 1
\* The shorter runs in which both calls are interleaved.
MaxTimeBoth    == 1200
MaxSamplesBoth == 11

\* Inputs of calculate_horizontal_ratio on its own, in pixels: iris centres
\* left of, on, inside and right of the eye, and eyes of width 0, below the
\* epsilon, at the epsilon and well above it.
IrisXs == {150, 192, 200, 205, 216, 232, 264, 300, 328, 400}

EyeLefts == {192, 200}

EyeWidths == {Rat(0, 1), Rat(1, 10000000), Rat(1, 1000000), Rat(32, 1), Rat(64, 1)}

IrisInputs == {None} \cup {<<Rat(x, 1), Rat(190, 1)>> : x \in IrisXs}

BoundsInputs ==
    {None} \cup
    { [left   |-> <<Rat(l, 1), Rat(192, 1)>>,
       right  |-> <<FAdd(Rat(l, 1), w), Rat(192, 1)>>,
       top    |-> <<Rat(l, 1), Rat(180, 1)>>,
       bottom |-> <<Rat(l, 1), Rat(192, 1)>>] : l \in EyeLefts, w \in EyeWidths }

\* Inputs of the controller on its own: every direction the tracker returns
\* and one value it never returns.
Directions == {"LEFT", "RIGHT", "CENTER", "None", "UNKNOWN"}

KeyDeltas == {50, 250, 300}

MaxTimeKeys == 2300

\* Frames of the frame loop: ratios 0.50 and 0.30 with open eyes, closed
\* eyes on a list cut before the iris tables, no face.
ClosedFace == Face(10, 10, 100, 50)

MainFrames ==
    { OpenFace, Face(30, 30, 100, 30), CutTo(ClosedFace, 8), NoFace }

MainDeltas == {100}

KeyEvents == {"none", "q", "other"}

MaxTimeMain    == 2100
MaxSamplesMain == 11

-----------------------------------------------------------------------------
(* State machine.                                                          *)

\* KeyboardController.__init__ (keyboard_controller.py:9-19); no key is down.
InitKeys ==
    /\ current_key = "None"
    /\ last_direction = "None"
    /\ last_blink_state = FALSE
    /\ jump_start_time = None
    /\ jump_key_pressed = FALSE
    /\ held = {}
    /\ up_pressed_at = None
    /\ events = <<>>
    /\ kcall = [op |-> "init", direction |-> "None", is_blink |-> FALSE,
                time |-> StartTime, after |-> "init"]
    /\ kprior = KeysFields

\* main() before its loop (main.py:29).
InitMain ==
    /\ pc = "read"
    /\ frame = NoFace
    /\ keyboard_enabled = FALSE
    /\ enabled_by = "never"

\* GazeTracker.__init__ (gaze_tracker.py:23-33); nothing has been called.
Init ==
    /\ previous_eye_ratio = None
    /\ last_blink_time = 0
    /\ baseline_ratios = <<>>
    /\ baseline_avg = None
    /\ now = StartTime
    /\ op = "init"
    /\ landmarks = NoFace
    /\ prior = Fields
    /\ is_blink = FALSE
    /\ direction = "None"
    /\ samples = <<>>
    /\ changes = 0
    /\ run_pos = 0
    /\ blinks = <<>>
    /\ closure = "open"
    /\ alone_blink = [ret |-> FALSE, previous_eye_ratio |-> None, last_blink_time |-> 0]
    /\ alone_gaze = [ret |-> "None", baseline_ratios |-> <<>>, baseline_avg |-> None]
    /\ ratio_call = None
    /\ InitKeys
    /\ InitMain

\* The frame-only parts of the two calls, tabulated once per frame.
AllFrames == BlinkFrames \cup GazeFrames \cup BothFrames \cup MainFrames

OpeningOf == [lms \in AllFrames |-> normalized_opening(lms)]

AvgRatioOf == [lms \in AllFrames |-> frame_avg_ratio(lms, ImageWidth, ImageHeight)]

\* A detect_blink call, while the modelled time span lasts.
DetectBlink(lms, dt) ==
    /\ now + dt <= MaxTime
    /\ detect_blink(lms, OpeningOf[lms], dt)
    /\ UNCHANGED <<ratio_call, keys_vars, main_vars>>

\* A get_gaze_direction call, while the modelled input stream lasts: at most
\* MaxSamples samples, changing value at most MaxChanges times.
GetGazeDirection(lms) ==
    /\ LET a == AvgRatioOf[lms]
       IN  a # None =>
             /\ Len(samples) < MaxSamples
             /\ (samples # <<>> /\ samples[Len(samples)] # a) => changes < MaxChanges
    /\ get_gaze_direction(lms, AvgRatioOf[lms])
    /\ UNCHANGED <<ratio_call, keys_vars, main_vars>>

NextBlink == \E lms \in BlinkFrames, dt \in Deltas : DetectBlink(lms, dt)

NextGaze == \E lms \in GazeFrames : GetGazeDirection(lms)

\* Both calls in any order on any frames, as a caller may issue them
\* (main.py:47-50 calls one after the other on every frame with a face).
Next ==
    \/ \E lms \in BothFrames, dt \in Deltas :
          /\ now + dt <= MaxTimeBoth
          /\ DetectBlink(lms, dt)
    \/ \E lms \in BothFrames :
          /\ Len(samples) < MaxSamplesBoth
          /\ GetGazeDirection(lms)

Spec == Init /\ [][Next]_vars

SpecBlink == Init /\ [][NextBlink]_vars

SpecGaze == Init /\ [][NextGaze]_vars

\* calculate_horizontal_ratio called on its own.
CalculateHorizontalRatio(iris_pos, eye_bounds) ==
    /\ ratio_call' = [iris_pos |-> iris_pos, eye_bounds |-> eye_bounds,
                      ret |-> calculate_horizontal_ratio(iris_pos, eye_bounds)]
    /\ UNCHANGED <<tracker_vars, keys_vars, main_vars>>

NextRatio ==
    \E iris_pos \in IrisInputs, eye_bounds \in BoundsInputs :
        CalculateHorizontalRatio(iris_pos, eye_bounds)

SpecRatio == Init /\ [][NextRatio]_vars

\* The controller on its own: update, release_all and cleanup in any order.
Update(dir, blink, dt) ==
    /\ now + dt <= MaxTimeKeys
    /\ update(dir, blink, dt)
    /\ UNCHANGED <<previous_eye_ratio, last_blink_time, baseline_ratios, baseline_avg,
                   op, landmarks, is_blink, direction, prior, samples, changes,
                   run_pos, blinks, closure, alone_blink, alone_gaze,
                   ratio_call, main_vars>>

ReleaseAll ==
    /\ release_all("release_all")
    /\ UNCHANGED <<tracker_vars, ratio_call, main_vars>>

Cleanup ==
    /\ release_all("cleanup")
    /\ UNCHANGED <<tracker_vars, ratio_call, main_vars>>

NextKeys ==
    \/ \E dir \in Directions, blink \in BOOLEAN, dt \in KeyDeltas : Update(dir, blink, dt)
    \/ ReleaseAll
    \/ Cleanup

SpecKeys == Init /\ [][NextKeys]_vars

\* The frame loop of main() (main.py:31-104), one step per call it makes.
\* A frame is read while the modelled input stream lasts.
MainRead(lms) ==
    /\ pc = "read"
    /\ lms # NoFace => now < MaxTimeMain
    /\ LET a == AvgRatioOf[lms]
       IN  a # None =>
             /\ Len(samples) < MaxSamplesMain
             /\ (samples # <<>> /\ samples[Len(samples)] # a) => changes < MaxChanges
    /\ frame' = lms
    /\ pc' = IF lms = NoFace THEN "noface" ELSE "blink"
    /\ UNCHANGED <<tracker_vars, ratio_call, keys_vars, keyboard_enabled, enabled_by>>

\* Line 47
MainBlink(dt) ==
    /\ pc = "blink"
    /\ detect_blink(frame, OpeningOf[frame], dt)
    /\ pc' = "gaze"
    /\ UNCHANGED <<ratio_call, keys_vars, frame, keyboard_enabled, enabled_by>>

\* Line 50
MainGaze ==
    /\ pc = "gaze"
    /\ get_gaze_direction(frame, AvgRatioOf[frame])
    /\ pc' = "act"
    /\ UNCHANGED <<ratio_call, keys_vars, frame, keyboard_enabled, enabled_by>>

\* The controller updated on every frame with a face, enabled or not.
MainAct_ungated ==
    /\ pc = "act"
    /\ update(direction, is_blink, 0)
    /\ UNCHANGED <<previous_eye_ratio, last_blink_time, baseline_ratios,
                   baseline_avg, op, landmarks, is_blink, direction, prior,
                   samples, changes, run_pos, blinks, closure,
                   alone_blink, alone_gaze>>
    /\ pc' = "key"
    /\ UNCHANGED <<ratio_call, frame, keyboard_enabled, enabled_by>>

\* Lines 53-57; update reads the clock in the millisecond of detect_blink.
MainAct ==
    /\ pc = "act"
    /\ IF keyboard_enabled
       THEN /\ update(direction, is_blink, 0)
            /\ UNCHANGED <<previous_eye_ratio, last_blink_time, baseline_ratios,
                           baseline_avg, op, landmarks, is_blink, direction, prior,
                           samples, changes, run_pos, blinks, closure,
                           alone_blink, alone_gaze>>
       ELSE /\ release_all("release_all")
            /\ UNCHANGED tracker_vars
    /\ pc' = "key"
    /\ UNCHANGED <<ratio_call, frame, keyboard_enabled, enabled_by>>

\* Line 77
MainNoFace ==
    /\ pc = "noface"
    /\ release_all("release_all")
    /\ pc' = "key"
    /\ UNCHANGED <<tracker_vars, ratio_call, frame, keyboard_enabled, enabled_by>>

\* Lines 96-101, and line 104 after the break.
MainKey(k) ==
    /\ pc = "key"
    /\ IF k = "q"
       THEN /\ release_all("cleanup")
            /\ pc' = "done"
            /\ UNCHANGED keyboard_enabled
       ELSE /\ keyboard_enabled' = (keyboard_enabled \/ k # "none")
            /\ pc' = "read"
            /\ UNCHANGED keys_vars
    /\ enabled_by' = IF ~keyboard_enabled /\ keyboard_enabled' THEN k ELSE enabled_by
    /\ UNCHANGED <<tracker_vars, ratio_call, frame>>

\* Lines 32-34, and line 104 after the break: the camera gives no frame.
MainStop ==
    /\ pc = "read"
    /\ release_all("cleanup")
    /\ pc' = "done"
    /\ UNCHANGED <<tracker_vars, ratio_call, frame, keyboard_enabled, enabled_by>>

NextMain ==
    \/ \E lms \in MainFrames : MainRead(lms)
    \/ \E dt \in MainDeltas : MainBlink(dt)
    \/ MainGaze
    \/ MainAct
    \/ MainNoFace
    \/ \E k \in KeyEvents : MainKey(k)
    \/ MainStop

SpecMain == Init /\ [][NextMain]_vars

-----------------------------------------------------------------------------
(* Properties of blink detection, checked under SpecBlink.                 *)

LastBlink == blinks[Len(blinks)]

\* C1: detect_blink is edge-triggered.  It returns True only on the first
\* frame of an eye closure (a run of consecutive non-degenerate frames whose
\* opening is below 0.18), never on a later frame of the same run; and the
\* first closure a fresh tracker sees does return True (openings
\* 0.3, 0.3, 0.1, 0.1, 0.1, 0.3 give True once, on the third frame), so no
\* closure frame is ever reached without some blink having been emitted.
C1_BlinkEdgeTriggered ==
    /\ is_blink => run_pos = 1
    /\ run_pos # 0 => blinks # <<>>

\* An eye held closed past the cooldown: a later frame of the closure, more
\* than 0.15 s after the blink that opened it, returned False.
C1_Witness ==
    /\ op = "detect_blink"
    /\ run_pos = 2
    /\ ~is_blink
    /\ blinks # <<>>
    /\ now - LastBlink > 150

\* C2: any two frames on which detect_blink returns True are more than
\* 0.15 s apart (stated for consecutive True returns; the clock never runs
\* backwards, so it carries to any two).
C2_BlinkCooldown ==
    Len(blinks) = 2 => blinks[2] - blinks[1] > 150

\* An open->closed transition less than 0.15 s after an emitted blink, which
\* returned False.
C2_Witness ==
    /\ op = "detect_blink"
    /\ run_pos = 1
    /\ ~is_blink
    /\ blinks # <<>>
    /\ now - LastBlink < 150

\* The horizontal extent max(x) - min(x) of an eye's points.
HorizontalExtent(points) == FSub(ArrMax(Col0(points)), ArrMin(Col0(points)))

\* Both eyes have points and the average of their horizontal extents is 0.
ZeroEyeWidth(lms) ==
    /\ lms # <<>>
    /\ LET l == _get_points_from_indices(lms, left_eye_indices, 0, 0)
           r == _get_points_from_indices(lms, right_eye_indices, 0, 0)
       IN  /\ l # None
           /\ r # None
           /\ FAdd(HorizontalExtent(l), HorizontalExtent(r)) = Rat(0, 1)

ZeroEyeWidthOf == [lms \in AllFrames |-> ZeroEyeWidth(lms)]

\* C10: on a frame whose average eye width is zero, detect_blink returns
\* False and leaves previous_eye_ratio and last_blink_time as they were.
C10_DegenerateWidthSkipped ==
    (op = "detect_blink" /\ ZeroEyeWidthOf[landmarks])
       => /\ is_blink = FALSE
          /\ previous_eye_ratio = prior.previous_eye_ratio
          /\ last_blink_time = prior.last_blink_time

\* A zero-width frame arrived after a blink had been emitted and an opening
\* recorded, and both fields survived it.
C10_Witness ==
    /\ op = "detect_blink"
    /\ ZeroEyeWidthOf[landmarks]
    /\ previous_eye_ratio # None
    /\ last_blink_time # 0
    /\ ~is_blink

-----------------------------------------------------------------------------
(* Properties of the gaze estimator, checked under SpecGaze.               *)

Mean(ratios) == FDiv(FSum(ratios), Rat(Len(ratios), 1))

\* The most recent call was get_gaze_direction on a frame with gaze data.
ValidGazeCall == op = "get_gaze_direction" /\ AvgRatioOf[landmarks] # None

\* The classification the claim C3 gives a frame with ratio a against a
\* baseline b.
ExpectedAt(a, b, d) ==
    /\ a = FAdd(b, Rat(2, 100)) => d = "RIGHT"
    /\ a = FSub(b, Rat(2, 100)) => d = "LEFT"
    /\ a = FAdd(b, Rat(1, 100)) => d = "CENTER"

\* C3 as stated: whenever baseline_avg = b is established before a frame
\* (any window of 10 to 30 samples), a frame at b + 0.02 is classified
\* RIGHT, at b - 0.02 LEFT, at b + 0.01 CENTER.
C3_Original ==
    (ValidGazeCall /\ prior.baseline_avg # None)
       => ExpectedAt(AvgRatioOf[landmarks], prior.baseline_avg, direction)

\* C3 amended: the same, for a window of 10 to 29 samples before the frame
\* (the frame's own sample then joins the window and nothing is evicted).
C3_DeviationClassification ==
    (ValidGazeCall /\ prior.baseline_avg # None /\ Len(prior.baseline_ratios) <= 29)
       => ExpectedAt(AvgRatioOf[landmarks], prior.baseline_avg, direction)

\* A frame 0.02 above the mean of the 10 to 29 samples before it was
\* classified RIGHT.
C3_Witness ==
    /\ ValidGazeCall
    /\ prior.baseline_avg # None
    /\ Len(prior.baseline_ratios) <= 29
    /\ prior.baseline_avg = Mean(prior.baseline_ratios)
    /\ AvgRatioOf[landmarks] = FAdd(prior.baseline_avg, Rat(2, 100))
    /\ direction = "RIGHT"

\* C4: each of the first 9 frames with gaze data makes get_gaze_direction
\* return CENTER whatever the ratios; a frame without gaze data returns None
\* (and, adding no sample, does not count).
C4_ColdStart ==
    /\ (ValidGazeCall /\ Len(samples) <= 9) => direction = "CENTER"
    /\ (op = "get_gaze_direction" /\ AvgRatioOf[landmarks] = None)
          => direction = "None"

\* The ninth sample, far from the eight before it, still gave CENTER.
C4_Witness ==
    /\ ValidGazeCall
    /\ Len(samples) = 9
    /\ samples[9] # samples[8]
    /\ direction = "CENTER"

\* C5: after n frames with gaze data baseline_ratios holds exactly the most
\* recent min(n, 30) samples in arrival order; it never holds more than 30.
C5_FifoEviction ==
    LET n == Len(samples)
        k == IF n < 30 THEN n ELSE 30
    IN  /\ baseline_ratios = SubSeq(samples, n - k + 1, n)
        /\ Len(baseline_ratios) <= 30

\* After 35 samples the window holds samples 6..35, the evicted sample 5
\* differing from sample 6.
C5_Witness ==
    /\ Len(samples) = 35
    /\ baseline_ratios = SubSeq(samples, 6, 35)
    /\ samples[5] # samples[6]

\* C6: baseline_avg is None exactly while fewer than 10 samples are in
\* baseline_ratios, and otherwise is the arithmetic mean of its contents.
C6_BaselineAverage ==
    /\ baseline_avg = None <=> Len(baseline_ratios) < 10
    /\ baseline_avg # None => baseline_avg = Mean(baseline_ratios)

\* A full window of two different values, after evictions, with its mean.
C6_Witness ==
    /\ Len(samples) > 30
    /\ baseline_ratios[1] # baseline_ratios[30]
    /\ baseline_avg = Mean(baseline_ratios)

\* get_gaze_direction cannot obtain an iris centroid or the bounds of an eye.
MissingGazeData(lms) ==
    LET iris   == get_iris_positions(lms, ImageWidth, ImageHeight)
        bounds == get_eye_boundaries(lms, ImageWidth, ImageHeight)
    IN  iris[1] = None \/ iris[2] = None \/ bounds[1] = None \/ bounds[2] = None

MissingGazeDataOf == [lms \in AllFrames |-> MissingGazeData(lms)]

\* C7: whenever get_gaze_direction cannot obtain the iris centroid or the
\* eye bounds of either eye it returns None and leaves baseline_ratios and
\* baseline_avg unchanged.
C7_MissingDataKeepsBaseline ==
    (op = "get_gaze_direction" /\ MissingGazeDataOf[landmarks])
       => /\ direction = "None"
          /\ baseline_ratios = prior.baseline_ratios
          /\ baseline_avg = prior.baseline_avg

\* A face without iris landmarks, met with the baseline established.
C7_Witness ==
    /\ op = "get_gaze_direction"
    /\ MissingGazeDataOf[landmarks]
    /\ landmarks # NoFace
    /\ baseline_avg # None
    /\ direction = "None"

-----------------------------------------------------------------------------
(* Properties of both calls, checked under Spec.                           *)

\* Some index of the table is out of range for the landmark list.
IndexOutOfRange(lms, indices) == \E i \in 1..Len(indices) : indices[i] >= Len(lms)

EyeIndexOutOfRange(lms) ==
    \/ IndexOutOfRange(lms, left_eye_indices)
    \/ IndexOutOfRange(lms, right_eye_indices)

AnyIndexOutOfRange(lms) ==
    \/ EyeIndexOutOfRange(lms)
    \/ IndexOutOfRange(lms, left_iris_indices)
    \/ IndexOutOfRange(lms, right_iris_indices)

\* Every table with an index out of range looks up to None.
LookupsAllOrNothing(lms) ==
    \A indices \in {left_eye_indices, right_eye_indices,
                    left_iris_indices, right_iris_indices} :
        IndexOutOfRange(lms, indices)
           => _get_points_from_indices(lms, indices, ImageWidth, ImageHeight) = None

LookupsAllOrNothingOf == [lms \in AllFrames |-> LookupsAllOrNothing(lms)]

\* C8: an out-of-range landmark index is treated as missing data.  If any
\* index of a required table is out of range for the frame's landmark list,
\* the lookup of that table yields None, get_gaze_direction returns None with
\* the baseline unchanged, and detect_blink returns False with
\* previous_eye_ratio and last_blink_time unchanged.
C8_OutOfRangeIsMissingData ==
    /\ (op # "init" /\ AnyIndexOutOfRange(landmarks))
          => LookupsAllOrNothingOf[landmarks]
    /\ (op = "get_gaze_direction" /\ AnyIndexOutOfRange(landmarks))
          => /\ direction = "None"
             /\ baseline_ratios = prior.baseline_ratios
             /\ baseline_avg = prior.baseline_avg
    /\ (op = "detect_blink" /\ EyeIndexOutOfRange(landmarks))
          => /\ is_blink = FALSE
             /\ previous_eye_ratio = prior.previous_eye_ratio
             /\ last_blink_time = prior.last_blink_time

\* C9: on a frame without landmarks detect_blink returns False and
\* get_gaze_direction returns None, and neither call changes
\* previous_eye_ratio, last_blink_time, baseline_ratios or baseline_avg.
C9_NoFaceFrame ==
    /\ (op = "detect_blink" /\ landmarks = NoFace)
          => (is_blink = FALSE /\ Fields = prior)
    /\ (op = "get_gaze_direction" /\ landmarks = NoFace)
          => (direction = "None" /\ Fields = prior)

\* A frame without landmarks given to detect_blink once an opening, a blink
\* time and a baseline average were all recorded.
C9_Witness ==
    /\ op = "detect_blink"
    /\ landmarks = NoFace
    /\ previous_eye_ratio # None
    /\ last_blink_time # 0
    /\ baseline_avg # None
    /\ ~is_blink

-----------------------------------------------------------------------------
(* Properties of the frame loop, checked under SpecMain.                   *)

\* The frame's decision has been handed to the controller.
Actuated == pc = "key"

\* The decision of the frame being processed has no direction: no face was
\* detected, or the tracker returned None.
DirectionUnknown == frame = NoFace \/ direction = "None"

\* C11 as stated: after every frame whose decision has direction UNKNOWN (no
\* face detected, or the tracker returned no direction), release_all was
\* applied and neither a directional key nor the jump key is held.
C11_Original ==
    (Actuated /\ DirectionUnknown) => (kcall.op = "release_all" /\ held = {})

\* C11: after every frame in which no face was detected, release_all was
\* applied and neither a directional key nor the jump key is held.  (On a
\* frame with a face whose direction is None, update(None, is_blink) is called
\* once the keyboard is enabled, and keys may stay or become held.)
C11_ReleaseOnNoFace ==
    (Actuated /\ frame = NoFace) => (kcall.op = "release_all" /\ held = {})

\* A no-face frame arrived while a directional key and the jump key were held.
C11_Witness ==
    /\ Actuated
    /\ frame = NoFace
    /\ "up" \in kprior.held
    /\ kprior.held \cap {"left", "right"} # {}
    /\ held = {}

-----------------------------------------------------------------------------
(* Properties of the keyboard controller, checked under SpecKeys.          *)

DirectionalKeys == {"left", "right"}

\* The keys held after the first i events of the most recent call.
HeldAfterEvent(i) == KeysAfter(kprior.held, SubSeq(events, 1, i))

\* C12: at every point of every update and release_all call, between any two
\* of its key events too, at most one of the LEFT/RIGHT arrow keys is held;
\* and an update whose target key is the key already current issues no press
\* or release of a directional key.
C12_AtMostOneDirectionalKey ==
    /\ \A i \in 0..Len(events) :
          Cardinality(HeldAfterEvent(i) \cap DirectionalKeys) <= 1
    /\ (kcall.op = "update" /\ current_key = kprior.current_key)
          => \A i \in 1..Len(events) : events[i][2] \notin DirectionalKeys

\* An update switched the held key from the left to the right arrow.
C12_Witness ==
    /\ kcall.op = "update"
    /\ "left" \in kprior.held
    /\ "right" \in held
    /\ Len(events) >= 2

\* How long Key.up had been down when the most recent call read the clock.
HeldFor == kcall.time - kprior.up_pressed_at[1]

\* The most recent update carried a blink rising edge (lines 26).
RisingEdge == kcall.is_blink /\ ~kprior.last_blink_state

\* update releases Key.up only when it has been down for the hold duration.
NoEarlyRelease ==
    (kcall.op = "update" /\ (\E i \in 1..Len(events) : events[i] = Release("up")))
        => HeldFor >= 600

\* C13 as stated: update never releases the jump key before 0.6 s have
\* elapsed since it was pressed, and the first update call at or after 0.6 s
\* from the press releases it, whatever is_blink and direction are.
C13_Original ==
    /\ NoEarlyRelease
    /\ (kcall.op = "update" /\ "up" \in kprior.held /\ HeldFor >= 600)
          => "up" \notin held

\* C13: update never releases the jump key before 0.6 s have elapsed since
\* it was last pressed, and an update call at or after 0.6 s from the last
\* press releases it unless that call carries a blink rising edge (is_blink
\* True after an update with is_blink False), whatever direction is and also
\* when is_blink stayed True all the time.
C13_FixedJumpHold ==
    /\ NoEarlyRelease
    /\ (kcall.op = "update" /\ "up" \in kprior.held /\ HeldFor >= 600 /\ ~RisingEdge)
          => "up" \notin held

\* is_blink stayed True and the update exactly 0.6 s after the press released
\* the jump key.
C13_Witness ==
    /\ kcall.op = "update"
    /\ "up" \in kprior.held
    /\ HeldFor = 600
    /\ kcall.is_blink
    /\ kprior.last_blink_state
    /\ "up" \notin held

-----------------------------------------------------------------------------
(* Further properties of the gaze estimator, checked under SpecGaze.       *)

\* The avg_ratio of the latest valid frame.
LastSample == samples[Len(samples)]

\* The latest 30 valid frames all had the same avg_ratio.
ConstantFor30 ==
    /\ Len(samples) >= 30
    /\ \A i \in (Len(samples) - 29)..Len(samples) : samples[i] = LastSample

\* C14: once the latest 30 or more valid frames all had the same avg_ratio r,
\* baseline_avg equals r and the frame that completes the 30, like every
\* further frame at r, is classified CENTER, whatever the window held before.
C14_BaselineConvergence ==
    ConstantFor30 =>
        /\ baseline_avg = LastSample
        /\ ValidGazeCall => direction = "CENTER"

\* Thirty frames at one ratio after frames at another one, and one frame
\* more at that ratio.
C14_Witness ==
    /\ ConstantFor30
    /\ Len(samples) >= 32
    /\ samples[1] # LastSample
    /\ samples[Len(samples) - 30] = LastSample
    /\ ValidGazeCall
    /\ direction = "CENTER"

-----------------------------------------------------------------------------
(* Further properties of both calls, checked under Spec.                   *)

\* C15: detect_blink leaves baseline_ratios and baseline_avg as they were and
\* get_gaze_direction leaves previous_eye_ratio and last_blink_time as they
\* were; and after any interleaving of the two calls the blink result and
\* blink fields are those of a tracker that was given the detect_blink calls
\* only, the direction and baseline fields those of a tracker that was given
\* the get_gaze_direction calls only.
C15_BlinkGazeIndependent ==
    /\ op = "detect_blink" =>
          /\ baseline_ratios = prior.baseline_ratios
          /\ baseline_avg = prior.baseline_avg
    /\ op = "get_gaze_direction" =>
          /\ previous_eye_ratio = prior.previous_eye_ratio
          /\ last_blink_time = prior.last_blink_time
    /\ alone_blink = [ret |-> is_blink,
                      previous_eye_ratio |-> previous_eye_ratio,
                      last_blink_time |-> last_blink_time]
    /\ alone_gaze = [ret |-> direction,
                     baseline_ratios |-> baseline_ratios,
                     baseline_avg |-> baseline_avg]

\* A blink is emitted on a tracker whose baseline the gaze calls have
\* established, after an earlier detect_blink call recorded an opening.
C15_Witness ==
    /\ op = "detect_blink"
    /\ is_blink
    /\ prior.previous_eye_ratio # None
    /\ baseline_avg # None

-----------------------------------------------------------------------------
(* Properties of calculate_horizontal_ratio, checked under SpecRatio.      *)

\* calculate_horizontal_ratio was called with an iris position and eye bounds.
RatioCallWithData ==
    /\ ratio_call # None
    /\ ratio_call.iris_pos # None
    /\ ratio_call.eye_bounds # None

\* C16: whenever the iris position and the eye bounds are both present,
\* calculate_horizontal_ratio returns a value in [0, 1], bounds included, also
\* for an iris left of bounds.left.x or right of bounds.right.x.
C16_Clamp ==
    RatioCallWithData =>
        /\ FLe(Rat(0, 1), ratio_call.ret)
        /\ FLe(ratio_call.ret, Rat(1, 1))

\* An iris left of an eye of positive width was given the ratio 0.
C16_Witness ==
    /\ RatioCallWithData
    /\ FLt(ratio_call.iris_pos[1], ratio_call.eye_bounds.left[1])
    /\ FLt(ratio_call.eye_bounds.left[1], ratio_call.eye_bounds.right[1])
    /\ ratio_call.ret = Rat(0, 1)

\* C17: when bounds.right.x equals bounds.left.x, calculate_horizontal_ratio
\* returns exactly 0.5 wherever the iris is.
C17_DegenerateWidthRatio ==
    (RatioCallWithData /\ ratio_call.eye_bounds.right[1] = ratio_call.eye_bounds.left[1])
        => ratio_call.ret = Rat(1, 2)

\* An iris far right of an eye without width was given the ratio 0.5.
C17_Witness ==
    /\ RatioCallWithData
    /\ ratio_call.eye_bounds.right[1] = ratio_call.eye_bounds.left[1]
    /\ FLt(ratio_call.eye_bounds.right[1], ratio_call.iris_pos[1])
    /\ ratio_call.ret = Rat(1, 2)

-----------------------------------------------------------------------------
(* Properties of single calls, checked under SpecGaze and SpecBlink.       *)

\* C18: no call, on a valid, a missing-data or a no-face frame, leaves
\* baseline_ratios with fewer samples than it found, and none leaves
\* baseline_avg undefined when it found it defined.
C18_BaselineNeverReset ==
    /\ Len(baseline_ratios) >= Len(prior.baseline_ratios)
    /\ prior.baseline_avg # None => baseline_avg # None

\* A valid frame found the window full and left it full, with other content.
C18_Witness ==
    /\ ValidGazeCall
    /\ Len(prior.baseline_ratios) = 30
    /\ Len(baseline_ratios) = 30
    /\ baseline_ratios # prior.baseline_ratios
    /\ baseline_avg # None

\* C20: while the eye closure in progress is one whose first sub-threshold
\* frame arrived within 0.15 s of the last emitted blink, detect_blink
\* returns False, on every frame up to the next open non-degenerate frame and
\* however long after the cooldown the eye stays closed.
C20_ClosureInCooldownLost ==
    closure = "lost" => ~is_blink

\* The eye is still closed more than 0.15 s after the last blink, in a closure
\* that began within 0.15 s of it.
C20_Witness ==
    /\ op = "detect_blink"
    /\ closure = "lost"
    /\ run_pos = 2
    /\ now - LastBlink > 150
    /\ ~is_blink

-----------------------------------------------------------------------------
(* Further properties of the keyboard controller, checked under SpecKeys.  *)

HeldDirectional == held \cap DirectionalKeys

\* C19: after update with LEFT exactly the left arrow is the held directional
\* key, after RIGHT exactly the right arrow, after CENTER none and
\* last_direction is None; after update with None or any other value the
\* directional key held before the call, if any, is still the one held.
C19_DirectionLatch ==
    kcall.op = "update" =>
        /\ kcall.direction = "LEFT" => HeldDirectional = {"left"}
        /\ kcall.direction = "RIGHT" => HeldDirectional = {"right"}
        /\ kcall.direction = "CENTER" =>
              (HeldDirectional = {} /\ last_direction = "None")
        /\ kcall.direction \notin {"LEFT", "RIGHT", "CENTER"} =>
              HeldDirectional = kprior.held \cap DirectionalKeys

\* update(None, _) found the left arrow held and left it held.
C19_Witness ==
    /\ kcall.op = "update"
    /\ kcall.direction = "None"
    /\ "left" \in kprior.held
    /\ "left" \in held
    /\ last_direction = "LEFT"

\* C21: an update with a blink rising edge that finds the jump key held sets
\* jump_start_time to its own clock reading and leaves the key held without
\* releasing it; and no update releases the key less than 0.6 s after the
\* most recent press.
C21_BlinkRestartsHold ==
    /\ (kcall.op = "update" /\ RisingEdge /\ "up" \in kprior.held) =>
          /\ jump_start_time = <<kcall.time>>
          /\ jump_key_pressed
          /\ "up" \in held
          /\ \A i \in 1..Len(events) : events[i] # Release("up")
    /\ (kcall.op = "update" /\ "up" \in kprior.held /\ HeldFor < 600) =>
          "up" \in held

\* A second blink arrived less than 0.6 s after the press and restarted the
\* hold.
C21_Witness ==
    /\ kcall.op = "update"
    /\ RisingEdge
    /\ "up" \in kprior.held
    /\ HeldFor > 0
    /\ HeldFor < 600
    /\ jump_start_time = <<kcall.time>>
    /\ "up" \in held

\* The most recent controller call was release_all, directly or from cleanup.
Released == kcall.op \in {"release_all", "cleanup"}

\* C22 as stated: after release_all or cleanup no key is held, current_key
\* and last_direction are None, jump_key_pressed is False, jump_start_time is
\* None and last_blink_state is False; the next update with is_blink True
\* presses the jump key; and release_all after release_all changes nothing.
C22_Original ==
    /\ Released =>
          /\ held = {}
          /\ current_key = "None"
          /\ last_direction = "None"
          /\ ~jump_key_pressed
          /\ jump_start_time = None
          /\ ~last_blink_state
    /\ (kcall.op = "update" /\ kcall.after \in {"release_all", "cleanup"} /\ kcall.is_blink)
          => (\E i \in 1..Len(events) : events[i] = Press("up"))
    /\ (Released /\ kcall.after \in {"release_all", "cleanup"}) => KeysFields = kprior

\* C22: after release_all or cleanup no key is held, current_key and
\* last_direction are None, jump_key_pressed is False and jump_start_time is
\* None; last_blink_state is False if the jump key was held when release_all
\* was called and is left as it was otherwise; the next update with is_blink
\* True presses the jump key if last_blink_state is False; and release_all
\* after release_all changes nothing.
C22_ReleaseAllResets ==
    /\ Released =>
          /\ held = {}
          /\ current_key = "None"
          /\ last_direction = "None"
          /\ ~jump_key_pressed
          /\ jump_start_time = None
          /\ last_blink_state = (~kprior.jump_key_pressed /\ kprior.last_blink_state)
    /\ (kcall.op = "update" /\ kcall.after \in {"release_all", "cleanup"} /\ kcall.is_blink
        /\ ~kprior.last_blink_state)
          => (\E i \in 1..Len(events) : events[i] = Press("up"))
    /\ (Released /\ kcall.after \in {"release_all", "cleanup"}) => KeysFields = kprior

\* release_all found an arrow key and the jump key held and released both.
C22_Witness ==
    /\ Released
    /\ "up" \in kprior.held
    /\ kprior.held \cap DirectionalKeys # {}
    /\ kprior.last_blink_state
    /\ held = {}
    /\ ~last_blink_state

-----------------------------------------------------------------------------
(* Further properties of the frame loop, checked under SpecMain.           *)

\* The most recent controller call pressed no key.
NoPress == \A i \in 1..Len(events) : events[i][1] # "press"

\* C23: while keyboard_enabled is False update has never been called, no key
\* press is issued and no key is held, and every frame, with or without a
\* face, ends in release_all; keyboard_enabled is True exactly if a key event
\* other than 'q' (and other than "no key") turned it True, after which it
\* stays True; and after the loop has ended cleanup was called and no key is
\* held.
C23_KeyboardGate ==
    /\ ~keyboard_enabled => (kcall.op # "update" /\ NoPress /\ held = {})
    /\ (Actuated /\ ~keyboard_enabled) => kcall.op = "release_all"
    /\ enabled_by \in {"never", "other"}
    /\ keyboard_enabled <=> enabled_by # "never"
    /\ pc = "done" => (kcall.op = "cleanup" /\ held = {})

\* The loop ended with the keyboard enabled and the jump key held, and
\* cleanup released it.
C23_Witness ==
    /\ pc = "done"
    /\ keyboard_enabled
    /\ "up" \in kprior.held
    /\ kcall.op = "cleanup"
    /\ held = {}

=============================================================================
